---- MODULE Spec2Model ----
(***************************************************************************)
(* Model of the KfctlClient call pipeline of                               *)
(* bootstrap/cmd/bootstrap/app/kfctlClient.go: one erroring rate limiter   *)
(* shared by the create and get endpoints, CreateDeployment's constant     *)
(* back-off retry loop around the create endpoint, GetLatestKfdef's single *)
(* invocation, and the type-assertion classification of the response.      *)
(*                                                                         *)
(* Time is a simulated clock in whole seconds.  Tick is one second: it     *)
(* advances now, refills the limiter and runs down every pending retry     *)
(* timer.                                                                  *)
(***************************************************************************)
EXTENDS Integers, FiniteSets, Sequences, TLC

\* ---------------------------------------------------------------- constants
\* rate.NewLimiter(rate.Every(time.Second), 100): one token per second, burst 100
Rate == 1
Burst == 100
\* backoff.NewConstantBackOff(2*time.Second)
Interval == 2
\* backoff.WithMaxRetries(..., 30)
MaxRetries == 30

\* ------------------------------------------------------------------- bounds
\* calls the caller issues in a run of Spec
MaxCalls == 1
\* seconds of simulated time in a run of Spec: enough for a whole retry budget
MaxClock == 61
\* seconds of simulated time in a run of SpecShared
ShortClock == 2
\* seconds of simulated time in a run of SpecPair
PairClock == 4

\* ------------------------------------------------------------------- values
\* Every Go value the model handles (responses, errors, results) is a record
\* [type, id]: its dynamic type and what tells two values of the type apart.
Nil == [type |-> "nil", id |-> ""]
\* ratelimit.ErrLimited
ErrLimited == [type |-> "ErrLimited", id |-> ""]
\* ctx.Err() of a cancelled context, as the HTTP transport returns it
ErrCanceled == [type |-> "context", id |-> "canceled"]
\* errors of the transport itself: connection failure, timeout/undecodable body
TransportErrors ==
    {[type |-> "transport", id |-> "refused"], [type |-> "transport", id |-> "timeout"]}
\* a decoded *KfDef, a nil *KfDef, a decoded *httpError, a value of another
\* type, and the nil interface
KfDefD1 == [type |-> "KfDef", id |-> "d1"]
KfDefNilPtr == [type |-> "KfDef", id |-> "nilptr"]
HttpErrQuota == [type |-> "httpError", id |-> "quota exceeded"]
OtherJunk == [type |-> "other", id |-> "junk"]
Responses == {KfDefD1, KfDefNilPtr, HttpErrQuota, OtherJunk, Nil}

\* what an endpoint invocation hands back: (response, error)
Out(r, e) == [resp |-> r, err |-> e]

\* Pformat(resp): a rendering of the value
Pformat(v) == v.type \o ":" \o v.id

\* a Go nil as a result pointer
IsNilPtr(v) == v = Nil \/ v = KfDefNilPtr

\* ------------------------------------------------------------------ limiter
\* rate.Limiter.Allow with the bucket already advanced to now: a token is there
Allow(t) == t >= 1
\* an Allow that grants without taking the token from the bucket
TakeTokenKeeps(t) == t
\* the bucket after Allow
TakeToken(t) == IF Allow(t) THEN t - 1 ELSE t
\* a bucket refilled without the burst cap
AdvanceNoCap(t) == t + Rate
\* the bucket one second later: refilled at Rate, never above Burst
Advance(t) == IF t + Rate > Burst THEN Burst ELSE t + Rate
\* a middleware that passes the call on whatever the limiter answered
InvokesNextAlways(allowed) == TRUE
\* ratelimit.NewErroringLimiter: next is invoked iff the limiter allowed
InvokesNext(allowed) == allowed

\* ------------------------------------------------------------------ backoff
Stop == -1
\* NextBackOff with the comparison off by one: one retry too many
NextBackOffOffByOne(numTries) ==
    IF MaxRetries > 0 /\ MaxRetries < numTries THEN Stop ELSE Interval
\* NextBackOff with a delegate interval one second short
NextBackOffShort(numTries) ==
    IF MaxRetries > 0 /\ MaxRetries <= numTries THEN Stop ELSE Interval - 1
\* backOffTries.NextBackOff: Stop once numTries has reached maxTries,
\* otherwise the constant interval (and numTries is incremented)
NextBackOff(numTries) ==
    IF MaxRetries > 0 /\ MaxRetries <= numTries THEN Stop ELSE Interval
\* an operation that also treats a decoded *httpError as a failure to retry
OperationRetriesRemoteError(out) ==
    IF out.err # Nil THEN out.err
    ELSE IF out.resp.type = "httpError" THEN out.resp ELSE Nil
\* the operation closure handed to backoff.Retry: its error is the endpoint's
Operation(out) == out.err
\* a Retry that gives up with the error it held before the last attempt
RetryErrorStale(prev, e) == IF prev # Nil THEN prev ELSE e
\* what backoff.Retry returns when it gives up: the error of the operation
\* that just failed (prev is the error of the attempt before it)
RetryError(prev, e) == e

\* ----------------------------------------------------------- classification
\* a classification without the *httpError branch
ClassifyDropsRemoteError(resp) ==
    IF resp.type = "KfDef" THEN [result |-> resp, err |-> Nil]
    ELSE [result |-> Nil, err |-> [type |-> "unexpected", id |-> Pformat(resp)]]
\* a classification that lets a nil response through as a nil result
ClassifySwallowsNil(resp) ==
    IF resp.type = "KfDef" \/ resp.type = "nil" THEN [result |-> resp, err |-> Nil]
    ELSE IF resp.type = "httpError" THEN [result |-> Nil, err |-> resp]
    ELSE [result |-> Nil, err |-> [type |-> "unexpected", id |-> Pformat(resp)]]
\* resp.(*kfdefs.KfDef), then resp.(*httpError), then the unexpected response
Classify(resp) ==
    IF resp.type = "KfDef" THEN [result |-> resp, err |-> Nil]
    ELSE IF resp.type = "httpError" THEN [result |-> Nil, err |-> resp]
    ELSE [result |-> Nil, err |-> [type |-> "unexpected", id |-> Pformat(resp)]]

\* -------------------------------------------------------------------- state
VARIABLES
    now,      \* the simulated clock, in seconds
    tokens,   \* the shared limiter's bucket
    call,     \* call[p]: the call caller p is in (program state)
    obs,      \* obs[p]: what an observer of p's current call has counted
    calls,    \* calls[p]: calls p has issued in a run of Spec
    lim       \* what an observer of the limiter has counted, over all callers

vars == <<now, tokens, call, obs, calls, lim>>

\* the goroutines that may call the client
Procs == {1, 2}
\* Spec: one caller, sequential calls
Callers == {1}
\* SpecShared: every goroutine calls GetLatestKfdef, these also CreateDeployment
Creators == {1}

\* op, pc: the method p is in and where; ctxDone: the context of the call is
\* cancelled; sendDone: it was already cancelled when the request in flight
\* was handed to the transport; resp, err: the variables of lines 79-80;
\* numTries: backOffTries.numTries; timer: seconds left on Retry's timer;
\* result, retErr: the pair the method returned
NoCall ==
    [op |-> "none", pc |-> "idle", ctxDone |-> FALSE, sendDone |-> FALSE,
     resp |-> Nil, err |-> Nil, numTries |-> 0, timer |-> 0,
     result |-> Nil, retErr |-> Nil]

\* attempts: invocations of the (rate-limited) endpoint; permits: tokens the
\* limiter granted them; transport: invocations of the wrapped HTTP endpoint;
\* failures: attempts that returned an error; firstErr, lastErr: the errors of
\* the first and of the latest failed attempt; respAt: the attempt that
\* returned a response with a nil error (0: none yet); classified: times the
\* response was classified; sinceFail: seconds since the latest failure, up to
\* Interval; gap: sinceFail as the latest retry started; waits: retries that
\* started a full Interval after the failure before them; earlyCancel: the
\* context was cancelled before any attempt had completed
NoObs ==
    [attempts |-> 0, permits |-> 0, transport |-> 0, failures |-> 0,
     waits |-> 0, firstErr |-> Nil, lastErr |-> Nil, respAt |-> 0,
     classified |-> 0, sinceFail |-> 0, gap |-> Interval, earlyCancel |-> FALSE,
     got |-> Nil]

\* surplus: invocations of the wrapped HTTP endpoints minus permits granted,
\* over all callers and both endpoints since construction.
\* worst: the largest value, over all time windows [s, now], of the permits
\* granted in the window minus Rate * (now - s).  A permit adds one to every
\* window that has begun; a second takes Rate off each of them and begins
\* the window [now, now], whose value is 0.
NoLim == [surplus |-> 0, worst |-> 0]

\* the observer's record after a limiter check that answered allowed
Counted(l, allowed) ==
    [l EXCEPT !.worst = IF allowed THEN @ + 1 ELSE @,
              !.surplus = @ + (IF InvokesNext(allowed) THEN 1 ELSE 0)
                            - (IF allowed THEN 1 ELSE 0)]

\* the observer's record one second later
Elapsed(l) == [l EXCEPT !.worst = IF @ > Rate THEN @ - Rate ELSE 0]

Init ==
    /\ now = 0
    /\ tokens = Burst
    /\ call = [p \in Procs |-> NoCall]
    /\ obs = [p \in Procs |-> NoObs]
    /\ calls = [p \in Procs |-> 0]
    /\ lim = NoLim

\* ---------------------------------------------------------------- the steps
\* the observer's record of an attempt that ended in error e
ObsFailure(o, e) ==
    [o EXCEPT !.failures = @ + 1,
              !.firstErr = IF o.failures = 0 THEN e ELSE @,
              !.lastErr = e,
              !.sinceFail = 0]

\* the observer's record of an attempt that ended in a response
ObsResponse(o) == [o EXCEPT !.respAt = o.attempts]

\* a Retry that goes round again without arming its timer
AfterFailureNoTimer(c, e) ==
    IF NextBackOff(c.numTries) = Stop
    THEN [c EXCEPT !.pc = "returned", !.err = e, !.sendDone = FALSE,
                   !.result = Nil, !.retErr = RetryError(c.err, e)]
    ELSE [c EXCEPT !.pc = "wait", !.err = e, !.sendDone = FALSE,
                   !.numTries = @ + 1, !.timer = 0]
\* a back-off that counts transport errors only: a rejected attempt is retried
\* for free
AfterFailureRejectionFree(c, e) ==
    LET next == IF e = ErrLimited THEN Interval ELSE NextBackOff(c.numTries) IN
    IF next = Stop
    THEN [c EXCEPT !.pc = "returned", !.err = e, !.sendDone = FALSE,
                   !.result = Nil, !.retErr = RetryError(c.err, e)]
    ELSE [c EXCEPT !.pc = "wait", !.err = e, !.sendDone = FALSE,
                   !.numTries = IF e = ErrLimited THEN @ ELSE @ + 1,
                   !.timer = next]
\* a Retry that sleeps on a timer nobody fires: the loop never wakes again
AfterFailureSleepsForGood(c, e) ==
    [c EXCEPT !.pc = "asleep", !.err = e, !.sendDone = FALSE,
              !.numTries = @ + 1]
\* backoff.Retry after the operation returned error e: give up with the
\* error, or arm the timer for the next attempt
AfterFailure(c, e) ==
    LET next == NextBackOff(c.numTries) IN
    IF next = Stop
    THEN [c EXCEPT !.pc = "returned", !.err = e, !.sendDone = FALSE,
                   !.result = Nil, !.retErr = RetryError(c.err, e)]
    ELSE [c EXCEPT !.pc = "wait", !.err = e, !.sendDone = FALSE,
                   !.numTries = @ + 1, !.timer = next]

\* resp kept in one variable of the client instead of a local of the call:
\* the call classifies what another call stored there
AfterResponseSharedResp(c) ==
    LET others == {call[q].resp : q \in Procs} \ {Nil, c.resp}
        r == IF others = {} THEN c.resp ELSE CHOOSE x \in others : TRUE
    IN [c EXCEPT !.pc = "returned", !.err = Nil, !.sendDone = FALSE,
                 !.result = Classify(r).result,
                 !.retErr = Classify(r).err]
\* backoff.Retry after the operation returned nil, and lines 91-111: the
\* response is classified and the method returns
AfterResponse(c) ==
    [c EXCEPT !.pc = "returned", !.err = Nil, !.sendDone = FALSE,
              !.result = Classify(c.resp).result,
              !.retErr = Classify(c.resp).err]

\* one run of the operation: c.createEndpoint(ctx, req) up to the limiter's
\* answer; c and o are p's records as the attempt starts
CreateInvoke(p, c, o) ==
    LET allowed == Allow(tokens)
        o1 == [o EXCEPT !.attempts = @ + 1,
                        !.gap = IF o.attempts >= 1 THEN o.sinceFail ELSE @,
                        !.permits = IF allowed THEN @ + 1 ELSE @,
                        !.transport = IF InvokesNext(allowed) THEN @ + 1 ELSE @]
    IN /\ tokens' = TakeToken(tokens)
       /\ lim' = Counted(lim, allowed)
       /\ IF InvokesNext(allowed)
          THEN /\ call' = [call EXCEPT ![p] = [c EXCEPT !.pc = "create",
                                                        !.sendDone = c.ctxDone]]
               /\ obs' = [obs EXCEPT ![p] = o1]
          ELSE /\ call' = [call EXCEPT ![p] = AfterFailure(c, ErrLimited)]
               /\ obs' = [obs EXCEPT ![p] = ObsFailure(o1, ErrLimited)]
       /\ UNCHANGED now

\* CreateDeployment(ctx, req) is called, with a live or an already cancelled
\* context, and runs the first attempt
CreateDeployment(p) ==
    /\ call[p].pc \in {"idle", "returned"}
    /\ \E cancelled \in BOOLEAN :
          CreateInvoke(p, [NoCall EXCEPT !.op = "create", !.ctxDone = cancelled],
                          [NoObs EXCEPT !.earlyCancel = cancelled])

\* the caller cancels the context of its running CreateDeployment
Cancel(p) ==
    /\ call[p].op = "create"
    /\ call[p].pc \in {"create", "wait"}
    /\ ~call[p].ctxDone
    /\ call' = [call EXCEPT ![p].ctxDone = TRUE]
    /\ obs' = [obs EXCEPT ![p].earlyCancel = (obs[p].failures = 0)]
    /\ UNCHANGED <<now, tokens, calls, lim>>

\* a transport that looks at one context of the client, whoever holds it: any
\* cancelled call makes every call in flight liable to fail with its error
OutcomesAnyContext(c) ==
    LET errs == {Out(Nil, e) : e \in TransportErrors}
        resps == {Out(r, Nil) : r \in Responses}
    IN IF c.sendDone THEN {Out(Nil, ErrCanceled)}
       ELSE IF \E q \in Procs : call[q].ctxDone
            THEN {Out(Nil, ErrCanceled)} \cup errs \cup resps
       ELSE errs \cup resps

\* what the transport can hand back to a call in flight: a request sent with
\* a cancelled context fails with the context's error; a context cancelled
\* while the request is in flight races with the response
Outcomes(c) ==
    LET errs == {Out(Nil, e) : e \in TransportErrors}
        resps == {Out(r, Nil) : r \in Responses}
    IN IF c.sendDone THEN {Out(Nil, ErrCanceled)}
       ELSE IF c.ctxDone THEN {Out(Nil, ErrCanceled)} \cup errs \cup resps
       ELSE errs \cup resps

\* the create endpoint returns (line 84): the operation ends the retry loop
\* and the response is classified, or it fails and the loop backs off or
\* gives up
CreateReturn(p) ==
    /\ call[p].pc = "create"
    /\ \E out \in Outcomes(call[p]) :
          LET e == Operation(out)
              c == [call[p] EXCEPT !.resp = out.resp]
              o == IF out.err = Nil
                   THEN [ObsResponse(obs[p]) EXCEPT !.got = out.resp]
                                    ELSE ObsFailure(obs[p], out.err)
          IN IF e = Nil
             THEN /\ call' = [call EXCEPT ![p] = AfterResponse(c)]
                  /\ obs' = [obs EXCEPT ![p] = [o EXCEPT !.classified = @ + 1]]
             ELSE /\ call' = [call EXCEPT ![p] = AfterFailure(c, e)]
                  /\ obs' = [obs EXCEPT ![p] = o]
    /\ UNCHANGED <<now, tokens, calls, lim>>

\* the retry timer has run out: the loop runs the operation again
RetryAttempt(p) ==
    /\ call[p].pc = "wait"
    /\ call[p].timer = 0
    /\ CreateInvoke(p, call[p],
                    [obs[p] EXCEPT !.waits = IF obs[p].sinceFail >= Interval
                                             THEN @ + 1 ELSE @])
    /\ UNCHANGED calls

\* a Get that hands its error to a retry loop like Create's
AfterGetFailureRetries(c, e) == AfterFailure(c, e)
\* lines 116-118: the error of the one invocation goes back with a nil result
AfterGetFailure(c, e) ==
    [c EXCEPT !.pc = "returned", !.err = e, !.result = Nil, !.retErr = e]

\* a Get that holds a client-wide lock from the limiter check to the end of
\* the transport call: it does not start while another call is in flight
GetLatestKfdefExclusive(p) ==
    /\ \A q \in Procs \ {p} : call[q].pc \notin {"create", "get"}
    /\ call[p].pc \in {"idle", "returned"}
    /\ LET allowed == Allow(tokens)
           c == [NoCall EXCEPT !.op = "get"]
           o == [NoObs EXCEPT !.attempts = 1,
                              !.permits = IF allowed THEN 1 ELSE 0,
                              !.transport = IF InvokesNext(allowed) THEN 1 ELSE 0]
       IN /\ tokens' = TakeToken(tokens)
          /\ lim' = Counted(lim, allowed)
          /\ IF InvokesNext(allowed)
             THEN /\ call' = [call EXCEPT ![p] = [c EXCEPT !.pc = "get"]]
                  /\ obs' = [obs EXCEPT ![p] = o]
             ELSE /\ call' = [call EXCEPT ![p] = AfterGetFailure(c, ErrLimited)]
                  /\ obs' = [obs EXCEPT ![p] = ObsFailure(o, ErrLimited)]
    /\ UNCHANGED now

\* GetLatestKfdef(req): one invocation of the get endpoint with
\* context.Background()
GetLatestKfdef(p) ==
    /\ call[p].pc \in {"idle", "returned"}
    /\ LET allowed == Allow(tokens)
           c == [NoCall EXCEPT !.op = "get"]
           o == [NoObs EXCEPT !.attempts = 1,
                              !.permits = IF allowed THEN 1 ELSE 0,
                              !.transport = IF InvokesNext(allowed) THEN 1 ELSE 0]
       IN /\ tokens' = TakeToken(tokens)
          /\ lim' = Counted(lim, allowed)
          /\ IF InvokesNext(allowed)
             THEN /\ call' = [call EXCEPT ![p] = [c EXCEPT !.pc = "get"]]
                  /\ obs' = [obs EXCEPT ![p] = o]
             ELSE /\ call' = [call EXCEPT ![p] = AfterGetFailure(c, ErrLimited)]
                  /\ obs' = [obs EXCEPT ![p] = ObsFailure(o, ErrLimited)]
    /\ UNCHANGED now

\* the get endpoint returns (line 115): an error goes to the caller, a
\* response is classified
GetReturn(p) ==
    /\ call[p].pc = "get"
    /\ \E out \in Outcomes(call[p]) :
          LET c == [call[p] EXCEPT !.resp = out.resp] IN
          IF out.err # Nil
          THEN /\ call' = [call EXCEPT ![p] = AfterGetFailure(c, out.err)]
               /\ obs' = [obs EXCEPT ![p] = ObsFailure(obs[p], out.err)]
          ELSE /\ call' = [call EXCEPT ![p] = AfterResponse(c)]
               /\ obs' = [obs EXCEPT ![p] =
                            [ObsResponse(obs[p]) EXCEPT !.classified = @ + 1,
                                                        !.got = out.resp]]
    /\ UNCHANGED <<now, tokens, calls, lim>>

\* what one second does: the bucket refills, pending timers run down
Second ==
    /\ tokens' = Advance(tokens)
    /\ call' = [p \in Procs |->
                  [call[p] EXCEPT !.timer = IF @ > 0 THEN @ - 1 ELSE 0]]
    /\ obs' = [p \in Procs |->
                  [obs[p] EXCEPT !.sinceFail = IF @ < Interval THEN @ + 1 ELSE @]]
    /\ lim' = Elapsed(lim)
    /\ UNCHANGED calls

\* one second of the simulated clock, up to second limit
Tick(limit) ==
    /\ now < limit
    /\ now' = now + 1
    /\ Second

\* ------------------------------------------------- Spec: one caller's calls
\* the caller's next call, of MaxCalls
CallCreate(p) ==
    /\ calls[p] < MaxCalls
    /\ calls' = [calls EXCEPT ![p] = @ + 1]
    /\ CreateDeployment(p)

CallGet(p) ==
    /\ calls[p] < MaxCalls
    /\ calls' = [calls EXCEPT ![p] = @ + 1]
    /\ GetLatestKfdef(p)

Next ==
    \/ \E p \in Callers :
          \/ CallCreate(p)
          \/ CallGet(p)
          \/ Cancel(p)
          \/ CreateReturn(p)
          \/ RetryAttempt(p)
          \/ GetReturn(p)
    \/ Tick(MaxClock)

Spec == Init /\ [][Next]_vars

\* ------------------------------- SpecShared: concurrent callers, one limiter
\* a caller calls again as soon as its call has returned
AgainCreate(p) ==
    /\ CreateDeployment(p)
    /\ UNCHANGED calls

AgainGet(p) ==
    /\ GetLatestKfdef(p)
    /\ UNCHANGED calls

NextShared ==
    \/ \E p \in Creators : AgainCreate(p)
    \/ \E p \in Procs :
          \/ AgainGet(p)
          \/ Cancel(p)
          \/ CreateReturn(p)
          \/ RetryAttempt(p)
          \/ GetReturn(p)
    \/ Tick(ShortClock)

SpecShared == Init /\ [][NextShared]_vars

\* ------------------------- SpecStarved: a Create on an overloaded client
\* no caller cancels; time is counted by the timers only
\* the callers that keep the client overloaded
Getters == {2}

\* a second under overload: the other callers have taken every token before
\* the next one is added; the clock reading is not kept
SecondStarved ==
    /\ tokens = 0
    /\ Second
    /\ UNCHANGED now

NextStarved ==
    \/ \E p \in Creators :
          \/ AgainCreate(p)
          \/ CreateReturn(p)
          \/ RetryAttempt(p)
    \/ \E p \in Getters :
          \/ AgainGet(p)
          \/ GetReturn(p)
    \/ SecondStarved

SpecStarved == Init /\ [][NextStarved]_vars

\* ------------------------------ SpecPair: two callers in CreateDeployment
NextPair ==
    \/ \E p \in Procs :
          \/ CallCreate(p)
          \/ Cancel(p)
          \/ CreateReturn(p)
          \/ RetryAttempt(p)
    \/ Tick(PairClock)

SpecPair == Init /\ [][NextPair]_vars

\* ------------------------------------- SpecLive: one caller, with fairness
\* a second of a run that keeps no clock reading
SecondUntimed ==
    /\ Second
    /\ UNCHANGED now

NextLive ==
    \/ \E p \in Callers :
          \/ CallCreate(p)
          \/ CallGet(p)
          \/ Cancel(p)
          \/ CreateReturn(p)
          \/ RetryAttempt(p)
          \/ GetReturn(p)
    \/ SecondUntimed

\* time passes, every invocation of an endpoint returns, and a retry loop
\* whose timer has fired goes on
SpecLive ==
    /\ Init
    /\ [][NextLive]_vars
    /\ WF_vars(SecondUntimed)
    /\ \A p \in Callers : WF_vars(CreateReturn(p)) /\ WF_vars(RetryAttempt(p))

\* --------------------------------------------------------------- properties
InCreate(p) == call[p].op = "create"
Returned(p) == call[p].pc = "returned"

\* C1 as stated: one CreateDeployment call invokes the create endpoint at
\* most 30 times, the number handed to WithMaxRetries.
C1_AtMostMaxRetriesInvocations ==
    \A p \in Procs : InCreate(p) => obs[p].attempts <= MaxRetries

\* C1 amended: one CreateDeployment call invokes the create endpoint at most
\* MaxRetries + 1 = 31 times (the first attempt and 30 retries), the transport
\* no more often than that, and the retry counter numTries never exceeds 30.
C1_AtMostMaxRetriesPlusOne ==
    \A p \in Procs :
        InCreate(p) => /\ obs[p].attempts <= MaxRetries + 1
                       /\ obs[p].transport <= obs[p].attempts
                       /\ call[p].numTries <= MaxRetries

C1_Witness ==
    \E p \in Procs :
        InCreate(p) /\ Returned(p) /\ obs[p].attempts = MaxRetries + 1

\* C2 as stated: a CreateDeployment whose context is cancelled before any
\* attempt has completed makes at most one endpoint invocation.
C2_CancelledMakesAtMostOneAttempt ==
    \A p \in Procs :
        (InCreate(p) /\ obs[p].earlyCancel) => obs[p].attempts <= 1

\* C3: once an invocation of the create endpoint has returned a response with
\* a nil error, CreateDeployment has returned: that attempt is the last one
\* (no further invocation, no further limiter check), the response was
\* classified exactly once, and a *KfDef on the first attempt is the result,
\* as it was received, after exactly one attempt.
C3_ResponseEndsRetryLoop ==
    \A p \in Procs :
        InCreate(p) =>
            /\ obs[p].classified <= 1
            /\ obs[p].respAt = 0 => obs[p].classified = 0
            /\ obs[p].respAt > 0 =>
                  /\ Returned(p)
                  /\ obs[p].attempts = obs[p].respAt
                  /\ obs[p].classified = 1
                  /\ (obs[p].respAt = 1 /\ call[p].resp.type = "KfDef") =>
                        /\ call[p].result = call[p].resp
                        /\ call[p].retErr = Nil
                        /\ call[p].numTries = 0

C3_Witness ==
    \E p \in Procs :
        /\ InCreate(p) /\ Returned(p)
        /\ obs[p].respAt = 1 /\ obs[p].attempts = 1
        /\ call[p].resp = KfDefD1 /\ call[p].result = KfDefD1

\* C4: a CreateDeployment that has returned without any attempt having
\* produced a response returns a nil result and the error of the last attempt
\* made.
C4_ExhaustedReturnsLastError ==
    \A p \in Procs :
        (InCreate(p) /\ Returned(p) /\ obs[p].respAt = 0) =>
            /\ obs[p].failures = obs[p].attempts
            /\ call[p].result = Nil
            /\ call[p].retErr # Nil
            /\ call[p].retErr = obs[p].lastErr

C4_Witness ==
    \E p \in Procs :
        /\ InCreate(p) /\ Returned(p) /\ obs[p].respAt = 0
        /\ obs[p].failures = MaxRetries + 1
        /\ obs[p].firstErr # obs[p].lastErr
        /\ call[p].retErr = obs[p].lastErr

\* C5: a response that is not a *KfDef ends the call, in Create and in Get,
\* at the attempt that received it: a *httpError is returned as the error,
\* any other value as an unexpected-response error, with a nil result; when it
\* comes on the first attempt the call made exactly one attempt.
C5_RemoteErrorIsTerminal ==
    \A p \in Procs :
        (obs[p].respAt > 0 /\ call[p].resp.type # "KfDef") =>
            /\ Returned(p)
            /\ obs[p].attempts = obs[p].respAt
            /\ obs[p].failures = 0 => obs[p].attempts = 1
            /\ call[p].result = Nil
            /\ call[p].resp.type = "httpError" => call[p].retErr = call[p].resp
            /\ call[p].resp.type # "httpError" => call[p].retErr.type = "unexpected"

C5_Witness ==
    \E p \in Procs :
        /\ InCreate(p) /\ Returned(p)
        /\ call[p].resp = HttpErrQuota /\ call[p].retErr = HttpErrQuota
        /\ obs[p].attempts = 1

\* C6: when the first k invocations of a CreateDeployment fail and invocation
\* k + 1 returns a response, the call returns after exactly k + 1 attempts
\* and exactly k waited intervals.
C6_AttemptsAndWaits ==
    \A p \in Procs :
        (InCreate(p) /\ obs[p].respAt > 0) =>
            /\ Returned(p)
            /\ obs[p].attempts = obs[p].failures + 1
            /\ obs[p].waits = obs[p].failures

C6_Witness ==
    \E p \in Procs :
        /\ InCreate(p) /\ Returned(p)
        /\ obs[p].failures = 2 /\ obs[p].attempts = 3 /\ obs[p].waits = 2
        /\ call[p].result = KfDefD1

\* C7: every attempt of a CreateDeployment after the first starts at least
\* Interval (2 s) after the attempt before it failed.
C7_IntervalBetweenAttempts ==
    \A p \in Procs :
        (InCreate(p) /\ obs[p].attempts >= 2) => obs[p].gap >= Interval

C7_Witness ==
    \E p \in Procs :
        /\ InCreate(p) /\ call[p].pc = "create"
        /\ obs[p].attempts >= 2 /\ obs[p].gap = Interval

InFlight(p) == call[p].pc \in {"create", "get"}

\* C8: an attempt the limiter rejects never reaches the wrapped transport and
\* fails at once with the rate-limit error (the call is not left pending);
\* per call and over all callers and both endpoints, the transport has been
\* invoked no more often than the limiter has granted a permit.
C8_NoInvocationWithoutPermit ==
    /\ lim.surplus <= 0
    /\ \A p \in Procs :
          LET rejected == obs[p].attempts - obs[p].permits IN
          /\ obs[p].transport <= obs[p].permits
          /\ rejected <= obs[p].failures
          /\ InFlight(p) => obs[p].failures = obs[p].attempts - 1
          /\ (call[p].op = "get" /\ rejected > 0) =>
                /\ Returned(p)
                /\ call[p].retErr = ErrLimited
                /\ call[p].result = Nil
          /\ (InCreate(p) /\ rejected > 0 /\ obs[p].attempts = 1) =>
                /\ call[p].pc = "wait"
                /\ call[p].err = ErrLimited

C8_Witness ==
    \E p, q \in Procs :
        /\ call[p].op = "get" /\ Returned(p)
        /\ obs[p].permits = 0 /\ obs[p].transport = 0
        /\ call[p].retErr = ErrLimited
        /\ InCreate(q) /\ call[q].pc = "wait"
        /\ obs[q].attempts = 1 /\ obs[q].transport = 0
        /\ call[q].err = ErrLimited

\* C9: in every time window [s, now] of the simulated clock the limiter has
\* granted at most Rate * (now - s) + Burst permits, to all callers of both
\* endpoints together.
C9_WindowBound == lim.worst <= Burst

C9_Witness ==
    \E p, q \in Procs :
        /\ now >= 1 /\ lim.worst = Burst /\ tokens = 0
        /\ call[p].pc = "create" /\ call[q].pc = "get"

\* C10: a classified response gives exactly one of a result (nil error), the
\* structured remote error, an unexpected-response error; a *KfDef gives the
\* first, with itself as the result, before *httpError is looked at; a
\* *httpError gives the second with a nil result; every other value gives the
\* third, with a rendering of the value and a nil result.
C10_ClassificationExhaustive ==
    \A p \in Procs :
        (Returned(p) /\ obs[p].respAt > 0) =>
            LET r == call[p].resp
                domain == call[p].retErr = Nil
                remote == call[p].retErr.type = "httpError"
                unexpected == call[p].retErr.type = "unexpected"
            IN /\ Cardinality({k \in {"domain", "remote", "unexpected"} :
                     \/ k = "domain" /\ domain
                     \/ k = "remote" /\ remote
                     \/ k = "unexpected" /\ unexpected}) = 1
               /\ domain <=> r.type = "KfDef"
               /\ remote <=> r.type = "httpError"
               /\ domain => call[p].result = r
               /\ remote => call[p].retErr = r /\ call[p].result = Nil
               /\ unexpected => /\ call[p].retErr.id = Pformat(r)
                                /\ call[p].result = Nil

C10_Witness ==
    \E p \in Procs :
        /\ call[p].op = "get" /\ Returned(p) /\ obs[p].respAt = 1
        /\ call[p].resp = OtherJunk
        /\ call[p].retErr = [type |-> "unexpected", id |-> "other:junk"]
        /\ call[p].result = Nil

\* C11: a GetLatestKfdef makes one limiter check and at most one transport
\* invocation and never waits or retries; when the limiter rejects it or the
\* transport fails, it has returned a nil result with that very error.
C11_GetIsSingleShot ==
    \A p \in Procs :
        call[p].op = "get" =>
            /\ obs[p].attempts = 1
            /\ obs[p].permits <= 1 /\ obs[p].transport <= 1
            /\ obs[p].waits = 0 /\ call[p].numTries = 0 /\ call[p].timer = 0
            /\ call[p].pc \in {"get", "returned"}
            /\ obs[p].permits = 0 =>
                  Returned(p) /\ obs[p].transport = 0 /\ obs[p].lastErr = ErrLimited
            /\ obs[p].failures > 0 =>
                  /\ Returned(p)
                  /\ obs[p].failures = 1
                  /\ call[p].result = Nil
                  /\ call[p].retErr = obs[p].lastErr
                  /\ call[p].retErr # Nil

C11_Witness ==
    \E p, q \in Procs :
        /\ call[p].op = "get" /\ Returned(p) /\ obs[p].permits = 0
        /\ call[p].retErr = ErrLimited /\ call[p].result = Nil
        /\ call[q].op = "get" /\ Returned(q) /\ obs[q].transport = 1
        /\ call[q].retErr \in TransportErrors /\ call[q].result = Nil

\* C12: the back-off counts a rejected attempt like a failed transport
\* attempt: the retry counter of a Create equals the number of its failed
\* attempts of either kind up to MaxRetries, the failed attempts together
\* never exceed MaxRetries + 1, and a Create that was never admitted returns
\* only after MaxRetries + 1 rejections, with a nil result and ErrLimited.
C12_RejectionsShareTheBudget ==
    \A p \in Procs :
        InCreate(p) =>
            /\ obs[p].failures <= MaxRetries + 1
            /\ obs[p].attempts - obs[p].permits <= obs[p].failures
            /\ call[p].numTries <= MaxRetries
            /\ call[p].numTries =
                  IF obs[p].failures <= MaxRetries THEN obs[p].failures
                  ELSE MaxRetries
            /\ (Returned(p) /\ obs[p].permits = 0) =>
                  /\ obs[p].attempts = MaxRetries + 1
                  /\ obs[p].failures = MaxRetries + 1
                  /\ call[p].result = Nil
                  /\ call[p].retErr = ErrLimited

C12_Witness ==
    \E p \in Procs :
        /\ InCreate(p) /\ Returned(p)
        /\ obs[p].permits = 0 /\ obs[p].transport = 0
        /\ obs[p].attempts = MaxRetries + 1
        /\ call[p].retErr = ErrLimited /\ call[p].result = Nil

\* C13: every return of CreateDeployment and of GetLatestKfdef hands back
\* exactly one of a non-nil result and a non-nil error, whatever response the
\* endpoint returned with a nil error.
C13_ExactlyOneOfResultAndError ==
    \A p \in Procs :
        Returned(p) => (~IsNilPtr(call[p].result)) # (call[p].retErr # Nil)

\* caller p makes an attempt in this step: a call begins, or a retry fires
Attempted(p) ==
    /\ ~InFlight(p)
    /\ now' = now
    /\ [call'[p] EXCEPT !.ctxDone = call[p].ctxDone] # call[p]

\* C14: one bucket serves both operations and all callers. Every attempt of
\* any caller, first or retried, Create or Get, is decided on that bucket: it
\* takes one token when there is one and is rejected with ErrLimited when
\* there is none; and the token count changes only by one such granted permit
\* or by the refill of a passing second.
C14_LimiterIsShared ==
    [][ /\ \A p \in Procs :
              Attempted(p) =>
                  IF tokens >= 1
                  THEN tokens' = tokens - 1 /\ InFlight(p)'
                  ELSE /\ tokens' = 0
                       /\ ~InFlight(p)'
                       /\ call'[p].err = ErrLimited
        /\ tokens' # tokens =>
              \/ /\ now' = now
                 /\ tokens' = tokens - 1
                 /\ \E p \in Procs : Attempted(p) /\ InFlight(p)'
              \/ /\ now' = now + 1
                 /\ tokens' = IF tokens + Rate > Burst THEN Burst ELSE tokens + Rate
      ]_vars

C14_Witness ==
    /\ InCreate(1) /\ call[1].pc = "wait"
    /\ obs[1].attempts = 2 /\ obs[1].permits = 1
    /\ obs[1].lastErr = ErrLimited
    /\ call[2].op = "get" /\ InFlight(2) /\ obs[2].permits = 1
    /\ tokens = 0 /\ now = ShortClock

\* C15: the limiter check and the transport call are not mutually exclusive:
\* whenever a token is in the bucket, a caller between two calls can start a
\* Get and have it admitted, however many other calls are still in flight.
C15_AdmittedWhileOthersInFlight ==
    \A q \in Procs :
        ( /\ call[q].pc \in {"idle", "returned"}
          /\ tokens >= 1
          /\ \E p \in Procs \ {q} : InFlight(p) )
        => ENABLED (AgainGet(q) /\ call'[q].pc = "get")

\* two callers have each passed the limiter and neither transport call has
\* completed
C15_Witness ==
    /\ call[1].pc = "create" /\ call[2].pc = "get"
    /\ obs[1].permits >= 1 /\ obs[2].permits = 1
    /\ obs[1].transport = obs[1].attempts
    /\ obs[1].respAt = 0 /\ obs[2].respAt = 0

\* C16: the retry state belongs to one CreateDeployment call. Whatever two
\* concurrent calls do, the retry counter of a call counts the failed attempts
\* of that call only, the error it holds is the error of its own last failed
\* attempt, and what it returns is made from the response or the error of its
\* own invocation.
C16_RetryStateIsPerCall ==
    \A p \in Procs :
        InCreate(p) =>
            /\ call[p].numTries =
                  IF obs[p].failures <= MaxRetries THEN obs[p].failures
                  ELSE MaxRetries
            /\ obs[p].attempts <= obs[p].failures + 1
            /\ call[p].pc = "wait" => call[p].err = obs[p].lastErr
            /\ (Returned(p) /\ obs[p].respAt = 0) =>
                  call[p].result = Nil /\ call[p].retErr = obs[p].lastErr
            /\ (Returned(p) /\ obs[p].respAt > 0) =>
                  /\ call[p].resp = obs[p].got
                  /\ call[p].result \in {Nil, obs[p].got}
                  /\ call[p].retErr.type = "httpError" => call[p].retErr = obs[p].got
                  /\ call[p].retErr.type = "unexpected" =>
                        call[p].retErr.id = Pformat(obs[p].got)
                  /\ obs[p].got = KfDefD1 => call[p].result = KfDefD1
                  /\ obs[p].got = HttpErrQuota => call[p].retErr = HttpErrQuota

C16_Witness ==
    /\ InCreate(1) /\ Returned(1) /\ InCreate(2) /\ Returned(2)
    /\ obs[1].attempts = 2 /\ obs[2].attempts = 2
    /\ obs[1].lastErr # obs[2].lastErr
    /\ call[1].result = KfDefD1 /\ call[1].retErr = Nil
    /\ call[2].result = Nil /\ call[2].retErr = HttpErrQuota

C18_GetIgnoresCancellation ==
    \A p \in Procs :
        call[p].op = "get" =>
            /\ ~call[p].ctxDone /\ ~call[p].sendDone
            /\ call[p].pc = "get" =>
                  Outcomes(call[p]) =
                      {Out(Nil, e) : e \in TransportErrors}
                          \cup {Out(r, Nil) : r \in Responses}
            /\ obs[p].lastErr # ErrCanceled
            /\ call[p].err # ErrCanceled
            /\ call[p].retErr # ErrCanceled

\* a Get in flight while the other caller's Create, cancelled, has already
\* failed an attempt on its context
C18_Witness ==
    /\ call[2].op = "get" /\ call[2].pc = "get"
    /\ InCreate(1) /\ call[1].ctxDone
    /\ obs[1].lastErr = ErrCanceled /\ call[1].pc = "wait"

====
